---- MODULE Spec2Model ----
(***************************************************************************)
(* Model of ai-proxy: the guardrail engine (internal/guardrails), the      *)
(* guardrail construction in main, the OpenAI client (internal/llm) and    *)
(* the POST /v1/query handler of cmd/server.                               *)
(*                                                                         *)
(* A Go string is a sequence of characters, each character a one-letter    *)
(* TLA+ string; literal fragments of format strings are single elements.  *)
(***************************************************************************)
EXTENDS Integers, Sequences, FiniteSets, TLC

VARIABLES
    input,      \* guardrail evaluation: what the guardrail was constructed from
    grd,        \* the guardrail under evaluation / installed in the router
    content,    \* guardrail evaluation: the content handed to Check
    result,     \* guardrail evaluation: what Check returned
    pc,         \* per request: position of its handler
    prompt,     \* per request: req.Prompt after binding
    metrics,    \* the four Prometheus counters
    responses,  \* per request: the responses written to the client
    queryCalls, \* per request: number of llmClient.Query calls made
    upstream,   \* per request: the upstream HTTP exchange of its Query call
    logged      \* per request: the error text written to the log

vars == <<input, grd, content, result, pc, prompt, metrics, responses,
          queryCalls, upstream, logged>>

guardVars == <<input, grd, content, result>>
serverVars == <<pc, prompt, metrics, responses, queryCalls, upstream, logged>>

(***************************************************************************)
(* Bounds of the model.                                                    *)
(***************************************************************************)
MaxContentLen == 3
MaxWordLen == 2
MaxGuardrails == 2
NumRequests == 2
MaxTokens == 2
MaxWordsBound == 2
MaxPatternLen == 2

(***************************************************************************)
(* Strings.                                                                *)
(***************************************************************************)
\* "e'" stands for a character whose UTF-8 encoding takes two bytes
Alphabet == {"a", "A", "b", " ", "e'"}
Letters == {"a", "A", "b"}

StringsUpTo(S, n) == UNION {[1..k -> S] : k \in 0..n}

Contents == StringsUpTo(Alphabet, MaxContentLen)
Words == StringsUpTo(Letters, MaxWordLen)

\* Number of bytes of the UTF-8 encoding of a character
CharBytes(c) == IF c = "e'" THEN 2 ELSE 1

\* len(s) of a Go string: its length in bytes, the characters of each UTF-8
\* width counted
ByteLen(s) ==
    LET N(w) == Cardinality({i \in 1..Len(s) : CharBytes(s[i]) = w})
    IN N(1) + 2 * N(2) + 3 * N(3) + 4 * N(4)

\* strings.Split(s, sep) for a separator of one character: the pieces
\* between the separators, empty pieces included
RECURSIVE Split(_, _)
Split(s, sep) ==
    IF \A i \in 1..Len(s) : s[i] # sep THEN <<s>>
    ELSE LET k == CHOOSE i \in 1..Len(s) :
                      s[i] = sep /\ \A j \in 1..(i - 1) : s[j] # sep
         IN <<SubSeq(s, 1, k - 1)>> \o Split(SubSeq(s, k + 1, Len(s)), sep)

\* unicode.ToLower on the characters of the model
LowerChar(c) ==
    IF c = "A" THEN "a" ELSE IF c = "B" THEN "b" ELSE c

\* strings.ToLower
ToLower(s) == [i \in 1..Len(s) |-> LowerChar(s[i])]

\* strings.Contains
Contains(s, sub) ==
    \E i \in 0..(Len(s) - Len(sub)) : SubSeq(s, i + 1, i + Len(sub)) = sub

\* unicode.IsSpace on the characters of the model
IsSpace(c) == c = " "

\* len(strings.Fields(s)): the number of maximal runs of non-space characters
FieldsCount(s) ==
    Cardinality({i \in 1..Len(s) :
        /\ ~IsSpace(s[i])
        /\ (i = 1 \/ IsSpace(s[i - 1]))})

Digit(d) ==
    CASE d = 0 -> "0" [] d = 1 -> "1" [] d = 2 -> "2" [] d = 3 -> "3"
      [] d = 4 -> "4" [] d = 5 -> "5" [] d = 6 -> "6" [] d = 7 -> "7"
      [] d = 8 -> "8" [] d = 9 -> "9"

RECURSIVE Decimal(_)
Decimal(n) ==
    IF n < 10 THEN <<Digit(n)>> ELSE Decimal(n \div 10) \o <<Digit(n % 10)>>

\* fmt's %d verb
Itoa(n) == IF n < 0 THEN <<"-">> \o Decimal(-n) ELSE Decimal(n)

(***************************************************************************)
(* Errors: Go's error values. nil is NilError; fmt.Errorf builds the text. *)
(***************************************************************************)
NilError == [isErr |-> FALSE, text |-> <<>>]
Errorf(text) == [isErr |-> TRUE, text |-> text]

(***************************************************************************)
(* internal/guardrails                                                     *)
(***************************************************************************)

\* Faulty variant of NewBannedWordsGuardrail: the words are stored as given
NewBannedWordsGuardrail_AsGiven(bannedWords) ==
    [kind |-> "BannedWords", BannedWords |-> bannedWords]

\* NewBannedWordsGuardrail: the words are stored in lower case
NewBannedWordsGuardrail(bannedWords) ==
    [kind |-> "BannedWords",
     BannedWords |-> [i \in 1..Len(bannedWords) |-> ToLower(bannedWords[i])]]

\* Faulty variant of BannedWordsScan: the arguments of strings.Contains are
\* exchanged, the word is searched for the content
RECURSIVE BannedWordsScan_Swapped(_, _, _)
BannedWordsScan_Swapped(words, lowered, i) ==
    IF i > Len(words) THEN NilError
    ELSE IF Contains(words[i], lowered)
         THEN Errorf(<<"content contains banned word: ">> \o words[i])
         ELSE BannedWordsScan_Swapped(words, lowered, i + 1)

\* Faulty variant of BannedWordsScan: the loop does not return at the first
\* word found, the last word found is reported
RECURSIVE BannedWordsScan_Last(_, _, _)
BannedWordsScan_Last(words, lowered, i) ==
    IF i > Len(words) THEN NilError
    ELSE LET rest == BannedWordsScan_Last(words, lowered, i + 1) IN
         IF rest.isErr THEN rest
         ELSE IF Contains(lowered, words[i])
              THEN Errorf(<<"content contains banned word: ">> \o words[i])
              ELSE NilError

\* BannedWordsGuardrail.Check: the loop over g.BannedWords from index i
RECURSIVE BannedWordsScan(_, _, _)
BannedWordsScan(words, lowered, i) ==
    IF i > Len(words) THEN NilError
    ELSE IF Contains(lowered, words[i])
         THEN Errorf(<<"content contains banned word: ">> \o words[i])
         ELSE BannedWordsScan(words, lowered, i + 1)

\* BannedWordsGuardrail.Check
BannedWordsCheck(g, c) == BannedWordsScan(g.BannedWords, ToLower(c), 1)

(***************************************************************************)
(* regexp, restricted to the syntax the model's patterns use: a literal    *)
(* character, "." for any character, and "(" which opens a group that the  *)
(* pattern alphabet cannot close, so that a pattern holding it is invalid. *)
(***************************************************************************)
PatternAlphabet == {"a", "b", ".", "("}

\* regexp.Compile: the compiled program, or the syntax error
Compile(pattern) ==
    IF \E i \in 1..Len(pattern) : pattern[i] = "("
    THEN [ok |-> FALSE, prog |-> <<>>,
          err |-> <<"error parsing regexp: missing closing ): ">> \o pattern]
    ELSE [ok |-> TRUE,
          prog |-> [i \in 1..Len(pattern) |->
                      IF pattern[i] = "." THEN [op |-> "any", c |-> ""]
                      ELSE [op |-> "char", c |-> pattern[i]]],
          err |-> <<>>]

\* One instruction of a compiled pattern against one character
OpMatches(o, c) == o.op = "any" \/ o.c = c

\* Faulty variant of MatchString: the pattern is matched at the start of
\* the string only
MatchString_Anchored(prog, s) ==
    /\ Len(prog) <= Len(s)
    /\ \A j \in 1..Len(prog) : OpMatches(prog[j], s[j])

\* Regexp.MatchString: an unanchored search
MatchString(prog, s) ==
    \E i \in 0..(Len(s) - Len(prog)) :
        \A j \in 1..Len(prog) : OpMatches(prog[j], s[i + j])

\* Faulty variant of RegexCompileAll: a pattern that does not compile is
\* skipped and the loop goes on
RECURSIVE RegexCompileAll_SkipInvalid(_, _, _)
RegexCompileAll_SkipInvalid(patterns, i, compiled) ==
    IF i > Len(patterns)
    THEN [g |-> [kind |-> "Regex", Patterns |-> compiled,
                 Names |-> SubSeq(patterns, 1, Len(compiled))],
          err |-> NilError]
    ELSE LET re == Compile(patterns[i]) IN
         IF ~re.ok
         THEN RegexCompileAll_SkipInvalid(patterns, i + 1, compiled)
         ELSE RegexCompileAll_SkipInvalid(patterns, i + 1, Append(compiled, re.prog))

\* NewRegexGuardrail: the loop over patterns from index i, with the patterns
\* compiled so far
RECURSIVE RegexCompileAll(_, _, _)
RegexCompileAll(patterns, i, compiled) ==
    IF i > Len(patterns)
    THEN [g |-> [kind |-> "Regex", Patterns |-> compiled,
                 Names |-> SubSeq(patterns, 1, Len(compiled))],
          err |-> NilError]
    ELSE LET re == Compile(patterns[i]) IN
         IF ~re.ok
         THEN [g |-> [kind |-> "nil"],
               err |-> Errorf(<<"invalid regex pattern '">> \o patterns[i]
                              \o <<"': ">> \o re.err)]
         ELSE RegexCompileAll(patterns, i + 1, Append(compiled, re.prog))

\* NewRegexGuardrail
NewRegexGuardrail(patterns) == RegexCompileAll(patterns, 1, <<>>)

\* RegexGuardrail.Check: the loop over g.Patterns from index i
RECURSIVE RegexScan(_, _, _)
RegexScan(g, c, i) ==
    IF i > Len(g.Patterns) THEN NilError
    ELSE IF MatchString(g.Patterns[i], c)
         THEN Errorf(<<"content matches forbidden pattern: ">> \o g.Names[i])
         ELSE RegexScan(g, c, i + 1)

\* RegexGuardrail.Check
RegexCheck(g, c) == RegexScan(g, c, 1)

(***************************************************************************)
(* Custom rules. A CustomRuleFunc is a closure; the model keeps which      *)
(* closure it is and the values it captured.                               *)
(***************************************************************************)
RuleFunc(fn, n, pattern) == [fn |-> fn, n |-> n, pattern |-> pattern]

NoMatch == [matched |-> FALSE, details |-> <<>>, warned |-> FALSE]

\* lengthCheckRule of main: closes over cfg.Guardrails.MaxPromptLength
lengthCheckRule(maxPromptLength, c) ==
    IF ByteLen(c) > maxPromptLength
    THEN [matched |-> TRUE,
          details |-> <<"prompt exceeds maximum length of ">>
                      \o Itoa(maxPromptLength) \o <<" characters">>,
          warned |-> FALSE]
    ELSE NoMatch

\* wordCountRule of main: closes over maxWords
wordCountRule(maxWords, c) ==
    IF FieldsCount(c) > maxWords
    THEN [matched |-> TRUE,
          details |-> <<"text contains ">> \o Itoa(FieldsCount(c))
                      \o <<" words, exceeding limit of ">> \o Itoa(maxWords),
          warned |-> FALSE]
    ELSE NoMatch

\* patternRule of main: closes over pattern; regexp.MatchString compiles the
\* pattern at every evaluation
patternRule(pattern, c) ==
    LET re == Compile(pattern) IN
    IF ~re.ok THEN [matched |-> FALSE, details |-> <<>>, warned |-> TRUE]
    ELSE IF MatchString(re.prog, c)
         THEN [matched |-> TRUE, details |-> <<"content matches forbidden pattern">>,
               warned |-> FALSE]
         ELSE NoMatch

\* A CustomRuleFunc that a caller of the package supplies: it matches every
\* content that is not empty and reports the details it was built with,
\* which may be empty
callerRule(details, c) ==
    IF c # <<>>
    THEN [matched |-> TRUE, details |-> details, warned |-> FALSE]
    ELSE NoMatch

\* Faulty variant of CallRule: the pass-through closure reports a match
CallRule_PassthroughMatches(rule, c) ==
    CASE rule.fn = "lengthCheckRule" -> lengthCheckRule(rule.n, c)
      [] rule.fn = "wordCountRule" -> wordCountRule(rule.n, c)
      [] rule.fn = "patternRule" -> patternRule(rule.pattern, c)
      [] rule.fn = "passthrough" -> [matched |-> TRUE, details |-> <<>>, warned |-> FALSE]
      [] rule.fn = "callerRule" -> callerRule(rule.pattern, c)

\* Calling a CustomRuleFunc
CallRule(rule, c) ==
    CASE rule.fn = "lengthCheckRule" -> lengthCheckRule(rule.n, c)
      [] rule.fn = "wordCountRule" -> wordCountRule(rule.n, c)
      [] rule.fn = "patternRule" -> patternRule(rule.pattern, c)
      [] rule.fn = "passthrough" -> NoMatch
      [] rule.fn = "callerRule" -> callerRule(rule.pattern, c)

\* NewCustomRuleGuardrail
NewCustomRuleGuardrail(rules, names) ==
    [kind |-> "CustomRule", Rules |-> rules, Names |-> names]

\* Faulty variant of CustomRuleScan: the details are appended after a colon
\* even when they are empty
RECURSIVE CustomRuleScan_AlwaysDetails(_, _, _)
CustomRuleScan_AlwaysDetails(g, c, i) ==
    IF i > Len(g.Rules) THEN NilError
    ELSE LET r == CallRule(g.Rules[i], c)
             name == IF i - 1 < Len(g.Names) THEN g.Names[i] ELSE <<"custom rule">>
         IN IF r.matched
            THEN Errorf(<<"content blocked by ">> \o name \o <<": ">> \o r.details)
            ELSE CustomRuleScan_AlwaysDetails(g, c, i + 1)

\* CustomRuleGuardrail.Check: the loop over g.Rules from index i
RECURSIVE CustomRuleScan(_, _, _)
CustomRuleScan(g, c, i) ==
    IF i > Len(g.Rules) THEN NilError
    ELSE LET r == CallRule(g.Rules[i], c)
             name == IF i - 1 < Len(g.Names) THEN g.Names[i] ELSE <<"custom rule">>
         IN IF r.matched
            THEN IF r.details # <<>>
                 THEN Errorf(<<"content blocked by ">> \o name \o <<": ">> \o r.details)
                 ELSE Errorf(<<"content blocked by ">> \o name)
            ELSE CustomRuleScan(g, c, i + 1)

\* CustomRuleGuardrail.Check
CustomRuleCheck(g, c) == CustomRuleScan(g, c, 1)

\* NewCompositeGuardrail
NewCompositeGuardrail(guardrails) ==
    [kind |-> "Composite", Guardrails |-> guardrails]

RECURSIVE Run(_, _)

\* Faulty variant of CompositeScan: the loop does not return at the first
\* error, it calls every guardrail and returns the last error
RECURSIVE CompositeScan_NoReturn(_, _, _, _)
CompositeScan_NoReturn(gs, c, i, called) ==
    IF i > Len(gs) THEN [err |-> NilError, called |-> called]
    ELSE LET err == Run(gs[i], c).err
             rest == CompositeScan_NoReturn(gs, c, i + 1, Append(called, i))
         IN IF rest.err.isErr THEN rest
            ELSE [err |-> err, called |-> rest.called]

\* CompositeGuardrail.Check: the loop over g.Guardrails from index i; the
\* result carries the indices of the guardrails whose Check was called
RECURSIVE CompositeScan(_, _, _, _)
CompositeScan(gs, c, i, called) ==
    IF i > Len(gs) THEN [err |-> NilError, called |-> called]
    ELSE LET err == Run(gs[i], c).err IN
         IF err.isErr THEN [err |-> err, called |-> Append(called, i)]
         ELSE CompositeScan(gs, c, i + 1, Append(called, i))

\* CompositeGuardrail.Check
CompositeCheck(g, c) == CompositeScan(g.Guardrails, c, 1, <<>>)

\* Guardrail.Check through the interface, with the calls a composite made
Run(g, c) ==
    CASE g.kind = "BannedWords" -> [err |-> BannedWordsCheck(g, c), called |-> <<>>]
      [] g.kind = "Regex" -> [err |-> RegexCheck(g, c), called |-> <<>>]
      [] g.kind = "CustomRule" -> [err |-> CustomRuleCheck(g, c), called |-> <<>>]
      [] g.kind = "Composite" -> CompositeCheck(g, c)

\* Guardrail.Check
Check(g, c) == Run(g, c).err

(***************************************************************************)
(* internal/config and the guardrail construction of main.                 *)
(*                                                                         *)
(* A value of a Parameters map is a Go interface{}: its dynamic type and   *)
(* its payload. A float payload is kept in tenths (15 is 1.5); a key that  *)
(* is absent from the map reads as the nil interface.                      *)
(***************************************************************************)
Value(t, n, s) == [t |-> t, n |-> n, s |-> s]
NilValue == Value("nil", 0, <<>>)
IntValue(n) == Value("int", n, <<>>)
Int64Value(n) == Value("int64", n, <<>>)
Float64Value(tenths) == Value("float64", tenths, <<>>)
Float32Value(tenths) == Value("float32", tenths, <<>>)
StringValue(s) == Value("string", 0, s)

\* Faulty variant of TruncFloat: the float is rounded to the nearest integer
TruncFloat_Round(tenths) ==
    IF tenths >= 0 THEN (tenths + 5) \div 10 ELSE -((5 - tenths) \div 10)

\* int(v) of a float: truncation toward zero
TruncFloat(tenths) ==
    IF tenths >= 0 THEN tenths \div 10 ELSE -((-tenths) \div 10)

\* config.RuleConfig
RuleConfig(name, type, maxWords, pattern) ==
    [Name |-> name, Type |-> type,
     Parameters |-> [max_words |-> maxWords, pattern |-> pattern]]

\* config.GuardrailsConfig, the fields main reads
GuardrailsConfig(bannedWords, regexPatterns, maxPromptLength, customRules) ==
    [BannedWords |-> bannedWords, RegexPatterns |-> regexPatterns,
     MaxPromptLength |-> maxPromptLength, CustomRules |-> customRules]

\* LoadConfig: the defaults of the two length limits
DefaultMaxContentLength == 10000
DefaultMaxPromptLength == 4000

\* A key of the guardrails section of the YAML file: absent, or set to a value
Absent == [set |-> FALSE, v |-> <<>>]
Present(v) == [set |-> TRUE, v |-> v]

\* The configuration file as os.ReadFile and yaml.Unmarshal find it: state is
\* "notexist", "unreadable", "malformed" or "ok", and the keys are those of
\* its guardrails section
ConfigFile(state, bannedWords, regexPatterns, customRules, maxContent, maxPrompt) ==
    [state |-> state, banned_words |-> bannedWords,
     regex_patterns |-> regexPatterns, custom_rules |-> customRules,
     max_content_length |-> maxContent,
     max_prompt_length |-> maxPrompt]

\* The environment variables LoadConfig reads for the guardrails; a variable
\* that is not set reads as the empty string
Environ(bannedWords) == [BANNED_WORDS |-> bannedWords]

\* yaml.Unmarshal of one key into a field that holds its default: a key the
\* document does not have leaves the field as it is
Unmarshal(key, field) == IF key.set THEN key.v ELSE field

\* Faulty variant of LoadConfig: the file is decoded into a fresh Config that
\* replaces the defaults, so that a key the file does not have reads as zero
LoadConfig_FreshConfig(file, env) ==
    IF file.state = "malformed"
    THEN [cfg |-> [kind |-> "nil"],
          err |-> Errorf(<<"error parsing config file: ", "yaml: unmarshal errors">>)]
    ELSE IF file.state = "unreadable"
    THEN [cfg |-> [kind |-> "nil"],
          err |-> Errorf(<<"error reading config file: ", "permission denied">>)]
    ELSE LET loaded == file.state = "ok" IN
         [cfg |-> [BannedWords |->
                      IF env.BANNED_WORDS # <<>>
                      THEN Split(env.BANNED_WORDS, ",")
                      ELSE IF loaded THEN Unmarshal(file.banned_words, <<>>) ELSE <<>>,
                   RegexPatterns |->
                      IF loaded THEN Unmarshal(file.regex_patterns, <<>>) ELSE <<>>,
                   MaxPromptLength |->
                      IF loaded THEN Unmarshal(file.max_prompt_length, 0)
                                ELSE DefaultMaxPromptLength,
                   CustomRules |->
                      IF loaded THEN Unmarshal(file.custom_rules, <<>>) ELSE <<>>,
                   MaxContentLength |->
                      IF loaded THEN Unmarshal(file.max_content_length, 0)
                                ELSE DefaultMaxContentLength],
          err |-> NilError]

\* LoadConfig: config.Guardrails, or the error
LoadConfig(file, env) ==
    IF file.state = "malformed"
    THEN [cfg |-> [kind |-> "nil"],
          err |-> Errorf(<<"error parsing config file: ", "yaml: unmarshal errors">>)]
    ELSE IF file.state = "unreadable"
    THEN [cfg |-> [kind |-> "nil"],
          err |-> Errorf(<<"error reading config file: ", "permission denied">>)]
    ELSE LET loaded == file.state = "ok"
             fromFile == GuardrailsConfig(
                 IF loaded THEN Unmarshal(file.banned_words, <<>>) ELSE <<>>,
                 IF loaded THEN Unmarshal(file.regex_patterns, <<>>) ELSE <<>>,
                 IF loaded THEN Unmarshal(file.max_prompt_length, DefaultMaxPromptLength)
                           ELSE DefaultMaxPromptLength,
                 IF loaded THEN Unmarshal(file.custom_rules, <<>>) ELSE <<>>)
             maxContentLength ==
                 IF loaded THEN Unmarshal(file.max_content_length, DefaultMaxContentLength)
                           ELSE DefaultMaxContentLength
         IN [cfg |-> [BannedWords |->
                          IF env.BANNED_WORDS # <<>>
                          THEN Split(env.BANNED_WORDS, ",")
                          ELSE fromFile.BannedWords,
                      RegexPatterns |-> fromFile.RegexPatterns,
                      MaxPromptLength |-> fromFile.MaxPromptLength,
                      CustomRules |-> fromFile.CustomRules,
                      MaxContentLength |-> maxContentLength],
             err |-> NilError]

\* main: the banned words guardrail, if configured
BannedWordsComponent(cfg) ==
    IF Len(cfg.BannedWords) > 0
    THEN <<NewBannedWordsGuardrail(cfg.BannedWords)>>
    ELSE <<>>

\* main: the regex guardrail, if configured and all its patterns compile
RegexComponent(cfg) ==
    IF Len(cfg.RegexPatterns) > 0
    THEN LET r == NewRegexGuardrail(cfg.RegexPatterns) IN
         IF r.err.isErr THEN <<>> ELSE <<r.g>>
    ELSE <<>>

\* main: the prompt length guardrail, if configured
PromptLengthComponent(cfg) ==
    IF cfg.MaxPromptLength > 0
    THEN <<NewCustomRuleGuardrail(
              <<RuleFunc("lengthCheckRule", cfg.MaxPromptLength, <<>>)>>,
              <<<<"prompt length check">>>>)>>
    ELSE <<>>

\* main: the body of the loop over cfg.Guardrails.CustomRules; the components
\* one rule configuration adds
CustomRuleComponent(ruleConfig) ==
    CASE ruleConfig.Type = <<"word_count">> ->
            LET v == ruleConfig.Parameters.max_words IN
            IF v.t \in {"float64", "float32"}
            THEN <<NewCustomRuleGuardrail(
                      <<RuleFunc("wordCountRule", TruncFloat(v.n), <<>>)>>,
                      <<ruleConfig.Name>>)>>
            ELSE IF v.t \in {"int", "int64"}
            THEN <<NewCustomRuleGuardrail(
                      <<RuleFunc("wordCountRule", v.n, <<>>)>>,
                      <<ruleConfig.Name>>)>>
            ELSE <<>>
      [] ruleConfig.Type = <<"contains_pattern">> ->
            LET v == ruleConfig.Parameters.pattern IN
            IF v.t # "string" THEN <<>>
            ELSE <<NewCustomRuleGuardrail(
                      <<RuleFunc("patternRule", 0, v.s)>>,
                      <<ruleConfig.Name>>)>>
      [] OTHER -> <<>>

\* Faulty variant of CustomRuleComponents: an entry that adds no rule ends
\* the loop, as a break in the place of the continue would
RECURSIVE CustomRuleComponents_Break(_, _)
CustomRuleComponents_Break(customRules, i) ==
    IF i > Len(customRules) THEN <<>>
    ELSE IF CustomRuleComponent(customRules[i]) = <<>> THEN <<>>
    ELSE CustomRuleComponent(customRules[i])
            \o CustomRuleComponents_Break(customRules, i + 1)

\* main: the loop over cfg.Guardrails.CustomRules from index i
RECURSIVE CustomRuleComponents(_, _)
CustomRuleComponents(customRules, i) ==
    IF i > Len(customRules) THEN <<>>
    ELSE CustomRuleComponent(customRules[i]) \o CustomRuleComponents(customRules, i + 1)

\* Faulty variant of GuardrailComponents: the custom rules are appended
\* before the built-in guardrails
GuardrailComponents_CustomFirst(cfg) ==
    CustomRuleComponents(cfg.CustomRules, 1) \o BannedWordsComponent(cfg)
        \o RegexComponent(cfg) \o PromptLengthComponent(cfg)

\* main: guardrailComponents
GuardrailComponents(cfg) ==
    BannedWordsComponent(cfg) \o RegexComponent(cfg) \o PromptLengthComponent(cfg)
        \o CustomRuleComponents(cfg.CustomRules, 1)

\* main: the default pass-through guardrail
DefaultPassthrough ==
    [kind |-> "CustomRule",
     Rules |-> <<RuleFunc("passthrough", 0, <<>>)>>,
     Names |-> <<<<"default-passthrough">>>>]

\* main: grd
MainGuardrail(cfg) ==
    IF Len(GuardrailComponents(cfg)) > 0
    THEN NewCompositeGuardrail(GuardrailComponents(cfg))
    ELSE DefaultPassthrough

(***************************************************************************)
(* internal/llm: OpenAIClient.Query, from the HTTP exchange on.            *)
(*                                                                         *)
(* An exchange is what httpClient.Do and io.ReadAll produced: a transport  *)
(* failure (the 30 s client timeout included), or a status with a body.    *)
(* A body is its text, whether it parses as JSON, and, when it does, the   *)
(* choices and usage.total_tokens it holds.                                *)
(***************************************************************************)
Body(raw, json, choices, total) ==
    [raw |-> raw, json |-> json, choices |-> choices, total_tokens |-> total]

Exchange(transport, status, body) ==
    [transport |-> transport, status |-> status, body |-> body]

NoBody == Body(<<>>, FALSE, <<>>, 0)
NoExchange == Exchange("none", 0, NoBody)

StatusOK == 200

\* The defaults of Query; the temperature is kept in tenths (0.7)
DefaultModel == <<"gpt-3.5-turbo">>
DefaultTemperature == 7
DefaultMaxTokens == 256

\* modelParams: a map[string]interface{}; a key that is absent reads as the
\* nil interface
ModelParams(model, temperature, maxTokens) ==
    [model |-> model, temperature |-> temperature, max_tokens |-> maxTokens]

\* OpenAIClient.Query: reqBody, the parameters resolved against the defaults
ChatRequest(p, modelParams) ==
    [Model |-> IF modelParams.model.t = "string"
               THEN modelParams.model.s ELSE DefaultModel,
     Messages |-> <<[Role |-> <<"user">>, Content |-> p]>>,
     Temperature |-> IF modelParams.temperature.t = "float64"
                     THEN modelParams.temperature.n ELSE DefaultTemperature,
     MaxTokens |-> IF modelParams.max_tokens.t = "float64"
                   THEN TruncFloat(modelParams.max_tokens.n) ELSE DefaultMaxTokens]

\* json.Marshal(reqBody): the keys of the JSON document sent upstream; the
\* fields tagged omitempty are left out when they hold the zero value
Marshal(reqBody) ==
    [model |-> Present(reqBody.Model),
     messages |-> Present(reqBody.Messages),
     temperature |-> IF reqBody.Temperature = 0 THEN Absent
                     ELSE Present(reqBody.Temperature),
     max_tokens |-> IF reqBody.MaxTokens = 0 THEN Absent
                    ELSE Present(reqBody.MaxTokens)]

\* Faulty variant of Query: the choices are not checked, a response without
\* a choice is returned as an empty completion
Query_NoChoiceCheck(x) ==
    IF x.transport = "error"
    THEN [completion |-> <<>>, tokens |-> 0,
          err |-> Errorf(<<"error sending request to LLM: ", "dial tcp: i/o timeout">>)]
    ELSE IF x.status # StatusOK
    THEN [completion |-> <<>>, tokens |-> 0,
          err |-> Errorf(<<"LLM API returned non-200 status: ">> \o Itoa(x.status)
                         \o <<", body: ">> \o x.body.raw)]
    ELSE IF ~x.body.json
    THEN [completion |-> <<>>, tokens |-> 0,
          err |-> Errorf(<<"error parsing response: ", "invalid character">>)]
    ELSE [completion |-> IF Len(x.body.choices) = 0 THEN <<>> ELSE x.body.choices[1],
          tokens |-> x.body.total_tokens, err |-> NilError]

\* OpenAIClient.Query, from httpClient.Do on
Query(x) ==
    IF x.transport = "error"
    THEN [completion |-> <<>>, tokens |-> 0,
          err |-> Errorf(<<"error sending request to LLM: ", "dial tcp: i/o timeout">>)]
    ELSE IF x.status # StatusOK
    THEN [completion |-> <<>>, tokens |-> 0,
          err |-> Errorf(<<"LLM API returned non-200 status: ">> \o Itoa(x.status)
                         \o <<", body: ">> \o x.body.raw)]
    ELSE IF ~x.body.json
    THEN [completion |-> <<>>, tokens |-> 0,
          err |-> Errorf(<<"error parsing response: ", "invalid character">>)]
    ELSE IF Len(x.body.choices) = 0
    THEN [completion |-> <<>>, tokens |-> 0,
          err |-> Errorf(<<"no completion found in response">>)]
    ELSE [completion |-> x.body.choices[1], tokens |-> x.body.total_tokens,
          err |-> NilError]

(***************************************************************************)
(* internal/metrics: the four counters. A Prometheus counter panics when   *)
(* asked to add a negative value.                                          *)
(***************************************************************************)
NewMetrics ==
    [LLMRequestsTotal |-> 0, LLMErrorsTotal |-> 0, LLMTokensTotal |-> 0,
     GuardrailBlocksTotal |-> 0]

\* Counter.Inc
Inc(m, counter) == [m EXCEPT ![counter] = @ + 1]

\* Counter.Add panics on a negative value
AddPanics(v) == v < 0

\* Faulty variant of Add: the counter is set to the value, so that what
\* another handler added before is lost
Add_Set(m, counter, v) == [m EXCEPT ![counter] = v]

\* Counter.Add
Add(m, counter, v) == [m EXCEPT ![counter] = @ + v]

(***************************************************************************)
(* cmd/server: the POST /v1/query handler, one instance per request.       *)
(***************************************************************************)
Requests == 1..NumRequests

StatusBadRequest == 400
StatusInternalServerError == 500

\* c.JSON(status, gin.H{key: text}); a response without body has key ""
Response(status, key, text) == [status |-> status, key |-> key, text |-> text]

\* A request body: whether it is JSON and the prompt field it holds
RequestBody(json, hasPrompt, p) == [json |-> json, hasPrompt |-> hasPrompt, prompt |-> p]

\* c.ShouldBindJSON(&req): the body parses and the required prompt is non-empty
Binds(body) == body.json /\ body.hasPrompt /\ body.prompt # <<>>

\* Faulty variant of Receive: the prompt is not required, a JSON body
\* without a prompt is bound with the empty prompt
Receive_NotRequired(r, body) ==
    /\ pc[r] = "Idle"
    /\ IF body.json
       THEN /\ pc' = [pc EXCEPT ![r] = "Received"]
            /\ prompt' = [prompt EXCEPT ![r] = body.prompt]
            /\ UNCHANGED <<responses, logged>>
       ELSE /\ pc' = [pc EXCEPT ![r] = "Invalid"]
            /\ responses' = [responses EXCEPT ![r] =
                  Append(@, Response(StatusBadRequest, "error", <<"Invalid request">>))]
            /\ logged' = [logged EXCEPT ![r] = <<"Invalid request: ", "binding failed">>]
            /\ UNCHANGED prompt
    /\ UNCHANGED <<metrics, queryCalls, upstream, guardVars>>

\* The handler is entered and the body is bound (or not)
Receive(r, body) ==
    /\ pc[r] = "Idle"
    /\ IF Binds(body)
       THEN /\ pc' = [pc EXCEPT ![r] = "Received"]
            /\ prompt' = [prompt EXCEPT ![r] = body.prompt]
            /\ UNCHANGED <<responses, logged>>
       ELSE /\ pc' = [pc EXCEPT ![r] = "Invalid"]
            /\ responses' = [responses EXCEPT ![r] =
                  Append(@, Response(StatusBadRequest, "error", <<"Invalid request">>))]
            /\ logged' = [logged EXCEPT ![r] = <<"Invalid request: ", "binding failed">>]
            /\ UNCHANGED prompt
    /\ UNCHANGED <<metrics, queryCalls, upstream, guardVars>>

\* grd.Check(req.Prompt) is called
BeginScreening(r) ==
    /\ pc[r] = "Received"
    /\ pc' = [pc EXCEPT ![r] = "Screening"]
    /\ UNCHANGED <<prompt, metrics, responses, queryCalls, upstream, logged, guardVars>>

\* Faulty variant of ScreenBlocked: the request counter is incremented too
ScreenBlocked_Counted(r, err) ==
    /\ logged' = [logged EXCEPT ![r] = <<"Guardrail blocked request: ">> \o err.text]
    /\ metrics' = Inc(Inc(metrics, "LLMRequestsTotal"), "GuardrailBlocksTotal")
    /\ responses' = [responses EXCEPT ![r] =
          Append(@, Response(StatusBadRequest, "error",
                             <<"Request blocked by guardrail: ">> \o err.text))]
    /\ pc' = [pc EXCEPT ![r] = "Rejected"]

\* grd.Check returned an error: the request is blocked
ScreenBlocked(r, err) ==
    /\ logged' = [logged EXCEPT ![r] = <<"Guardrail blocked request: ">> \o err.text]
    /\ metrics' = Inc(metrics, "GuardrailBlocksTotal")
    /\ responses' = [responses EXCEPT ![r] =
          Append(@, Response(StatusBadRequest, "error",
                             <<"Request blocked by guardrail: ">> \o err.text))]
    /\ pc' = [pc EXCEPT ![r] = "Rejected"]

\* Faulty variant of ScreenPassed: the request counter is not incremented
ScreenPassed_NotCounted(r) ==
    /\ pc' = [pc EXCEPT ![r] = "Forwarding"]
    /\ UNCHANGED <<metrics, responses, logged>>

\* grd.Check returned nil: the request counter is incremented
ScreenPassed(r) ==
    /\ metrics' = Inc(metrics, "LLMRequestsTotal")
    /\ pc' = [pc EXCEPT ![r] = "Forwarding"]
    /\ UNCHANGED <<responses, logged>>

\* Faulty variant of Screen: the guardrail remembers that it blocked a
\* request and blocks every later one
Screen_Remembering(r) ==
    /\ pc[r] = "Screening"
    /\ LET err == IF metrics.GuardrailBlocksTotal > 0 /\ ~Check(grd, prompt[r]).isErr
                  THEN Errorf(<<"content blocked by ", "custom rule">>)
                  ELSE Check(grd, prompt[r])
       IN IF err.isErr THEN ScreenBlocked(r, err) ELSE ScreenPassed(r)
    /\ UNCHANGED <<prompt, queryCalls, upstream, guardVars>>

\* grd.Check returns and the handler acts on its result
Screen(r) ==
    /\ pc[r] = "Screening"
    /\ LET err == Check(grd, prompt[r]) IN
          IF err.isErr THEN ScreenBlocked(r, err) ELSE ScreenPassed(r)
    /\ UNCHANGED <<prompt, queryCalls, upstream, guardVars>>

\* llmClient.Query is called: the request goes upstream
CallUpstream(r) ==
    /\ pc[r] = "Forwarding"
    /\ pc' = [pc EXCEPT ![r] = "AwaitingUpstream"]
    /\ queryCalls' = [queryCalls EXCEPT ![r] = @ + 1]
    /\ UNCHANGED <<prompt, metrics, responses, upstream, logged, guardVars>>

\* Faulty variant of QueryFailed: the handler goes back to call Query again
QueryFailed_Retry(r, q) ==
    /\ logged' = [logged EXCEPT ![r] = <<"LLM error: ">> \o q.err.text]
    /\ metrics' = Inc(metrics, "LLMErrorsTotal")
    /\ pc' = [pc EXCEPT ![r] = "Forwarding"]
    /\ UNCHANGED responses

\* Faulty variant of QueryFailed: the error counter is not incremented
QueryFailed_NotCounted(r, q) ==
    /\ logged' = [logged EXCEPT ![r] = <<"LLM error: ">> \o q.err.text]
    /\ responses' = [responses EXCEPT ![r] =
          Append(@, Response(StatusInternalServerError, "error",
                             <<"Error communicating with LLM">>))]
    /\ pc' = [pc EXCEPT ![r] = "UpstreamFailed"]
    /\ UNCHANGED metrics

\* Faulty variant of QueryFailed: the error text is sent to the client
QueryFailed_Echo(r, q) ==
    /\ logged' = [logged EXCEPT ![r] = <<"LLM error: ">> \o q.err.text]
    /\ metrics' = Inc(metrics, "LLMErrorsTotal")
    /\ responses' = [responses EXCEPT ![r] =
          Append(@, Response(StatusInternalServerError, "error",
                             <<"Error communicating with LLM: ">> \o q.err.text))]
    /\ pc' = [pc EXCEPT ![r] = "UpstreamFailed"]

\* llmClient.Query returned an error
QueryFailed(r, q) ==
    /\ logged' = [logged EXCEPT ![r] = <<"LLM error: ">> \o q.err.text]
    /\ metrics' = Inc(metrics, "LLMErrorsTotal")
    /\ responses' = [responses EXCEPT ![r] =
          Append(@, Response(StatusInternalServerError, "error",
                             <<"Error communicating with LLM">>))]
    /\ pc' = [pc EXCEPT ![r] = "UpstreamFailed"]

\* llmClient.Query returned a completion: the token counter is updated and
\* the completion returned; when Counter.Add panics, gin's Recovery
\* middleware answers 500 without a body
QuerySucceeded(r, q) ==
    IF AddPanics(q.tokens)
    THEN /\ logged' = [logged EXCEPT ![r] =
                <<"[Recovery] panic recovered: ", "counter cannot decrease in value">>]
         /\ responses' = [responses EXCEPT ![r] =
                Append(@, Response(StatusInternalServerError, "", <<>>))]
         /\ pc' = [pc EXCEPT ![r] = "Panicked"]
         /\ UNCHANGED metrics
    ELSE /\ metrics' = Add(metrics, "LLMTokensTotal", q.tokens)
         /\ responses' = [responses EXCEPT ![r] =
                Append(@, Response(StatusOK, "completion", q.completion))]
         /\ pc' = [pc EXCEPT ![r] = "Completed"]
         /\ UNCHANGED logged

\* llmClient.Query returns and the handler acts on its result
UpstreamReturn(r, x) ==
    /\ pc[r] = "AwaitingUpstream"
    /\ upstream' = [upstream EXCEPT ![r] = x]
    /\ LET q == Query(x) IN
          IF q.err.isErr THEN QueryFailed(r, q) ELSE QuerySucceeded(r, q)
    /\ UNCHANGED <<prompt, queryCalls, guardVars>>

(***************************************************************************)
(* Inputs of the handler and of Query: prompts, request bodies, upstream   *)
(* exchanges and model parameters.                                         *)
(***************************************************************************)
ServerPrompts == { <<"b">>, <<"a", "b", "b">>, <<"b", "b", "b">> }

RequestBodies ==
    { RequestBody(FALSE, FALSE, <<>>),
      RequestBody(TRUE, FALSE, <<>>),
      RequestBody(TRUE, TRUE, <<>>) }
    \cup { RequestBody(TRUE, TRUE, p) : p \in ServerPrompts }

TokenCounts == (-1)..MaxTokens

Exchanges ==
    { Exchange("error", 0, NoBody),
      Exchange("ok", 500, Body(<<"upstream stack trace">>, FALSE, <<>>, 0)),
      Exchange("ok", 201, Body(<<"{...}">>, TRUE, <<<<"created">>>>, 1)),
      Exchange("ok", StatusOK, Body(<<"<html>">>, FALSE, <<>>, 0)),
      Exchange("ok", StatusOK, Body(<<"{...}">>, TRUE, <<>>, 1)) }
    \cup { Exchange("ok", StatusOK, Body(<<"{...}">>, TRUE, cs, t)) :
             cs \in { <<<<"a", "b", "b">>>>, <<<<"a">>, <<"b">>>> },
             t \in TokenCounts }

\* Model parameters as they arrive in a JSON body: every number is a
\* float64
ModelParamSets ==
    { ModelParams(m, t, k) :
        m \in {NilValue, StringValue(<<"gpt-4">>), Float64Value(10)},
        t \in {NilValue, Float64Value(0), Float64Value(15), StringValue(<<"hot">>)},
        k \in {NilValue, Float64Value(0), Float64Value(20), Float64Value(25),
               StringValue(<<"many">>)} }

(***************************************************************************)
(* Evaluation of one guardrail on one content: the inputs.                 *)
(***************************************************************************)
WordLists ==
    {<<>>} \cup {<<w>> : w \in Words}
           \cup {<<w, v>> : w \in Words, v \in StringsUpTo(Letters, 1)}

\* Guardrails to compose, each built by its constructor
GuardrailPool ==
    { NewBannedWordsGuardrail(<<<<"a">>>>),
      NewBannedWordsGuardrail(<<<<"B">>>>),
      NewRegexGuardrail(<<<<"a", ".">>>>).g,
      NewCustomRuleGuardrail(<<RuleFunc("lengthCheckRule", 1, <<>>)>>,
                             <<<<"prompt length check">>>>),
      NewCustomRuleGuardrail(<<RuleFunc("wordCountRule", 1, <<>>)>>,
                             <<<<"Max Words">>>>),
      DefaultPassthrough }

GuardrailLists == StringsUpTo(GuardrailPool, MaxGuardrails)

RuleConfigPool ==
    { RuleConfig(<<"Max Words">>, <<"word_count">>, IntValue(1), NilValue),
      RuleConfig(<<>>, <<"word_count">>, Float64Value(15), NilValue),
      RuleConfig(<<"No Bound">>, <<"word_count">>, NilValue, NilValue),
      RuleConfig(<<"Text Bound">>, <<"word_count">>, StringValue(<<"a">>), NilValue),
      RuleConfig(<<"PII">>, <<"contains_pattern">>, NilValue, StringValue(<<"a">>)),
      RuleConfig(<<"Bad Regex">>, <<"contains_pattern">>, NilValue, StringValue(<<"(">>)),
      RuleConfig(<<"Numeric">>, <<"contains_pattern">>, NilValue, IntValue(1)),
      RuleConfig(<<"Other">>, <<"sentiment">>, NilValue, NilValue) }

RuleConfigLists ==
    {<<>>} \cup {<<r>> : r \in RuleConfigPool}
           \cup {<<r, q>> : r \in RuleConfigPool, q \in RuleConfigPool}

\* The built-in part of a configuration: banned words, patterns (the second
\* list holds an invalid one) and the prompt length bound
BuiltInConfigs ==
    { <<w, p, l>> : w \in {<<>>, <<<<"A">>>>},
                    p \in {<<>>, <<<<"b">>>>, <<<<"b">>, <<"(">>>>},
                    l \in {0, 2} }
        \ { <<<<<<"A">>>>, <<>>, 2>>, <<<<>>, <<<<"b">>>>, 2>>,
             <<<<<<"A">>>>, <<<<"b">>>>, 0>>, <<<<>>, <<<<"b">>, <<"(">>>>, 2>>,
             <<<<<<"A">>>>, <<<<"b">>, <<"(">>>>, 0>> }

Configs ==
    { GuardrailsConfig(b[1], b[2], b[3], r) :
        b \in BuiltInConfigs, r \in RuleConfigLists }

\* Configurations of one word_count rule, its bound in each of the four
\* numeric representations: the whole numbers from -1 to MaxWordsBound as
\* int and int64, and every tenth from -1.5 to MaxWordsBound + 0.9 as
\* float32 and float64
WordCountBounds ==
    {IntValue(n) : n \in (-1)..MaxWordsBound}
        \cup {Int64Value(n) : n \in (-1)..MaxWordsBound}
        \cup {Float32Value(t) : t \in (-15)..(10 * MaxWordsBound + 9)}
        \cup {Float64Value(t) : t \in (-15)..(10 * MaxWordsBound + 9)}

WordCountConfigs ==
    { GuardrailsConfig(<<>>, <<>>, 0,
          <<RuleConfig(<<"Max Words">>, <<"word_count">>, v, NilValue)>>) :
        v \in WordCountBounds }

\* Pattern lists for NewRegexGuardrail, invalid patterns included
Patterns == StringsUpTo(PatternAlphabet, MaxPatternLen)

PatternLists ==
    {<<>>} \cup {<<p>> : p \in Patterns}
           \cup {<<p, q>> : p \in Patterns, q \in StringsUpTo(PatternAlphabet, 1)}

\* Rules and names for NewCustomRuleGuardrail; the lists of names may be
\* shorter than the lists of rules
RulePool ==
    { RuleFunc("lengthCheckRule", 1, <<>>),
      RuleFunc("wordCountRule", 1, <<>>),
      RuleFunc("patternRule", 0, <<"a">>),
      RuleFunc("callerRule", 0, <<>>),
      RuleFunc("callerRule", 0, <<"not allowed">>) }

RuleLists ==
    {<<>>} \cup {<<r>> : r \in RulePool}
           \cup {<<r, q>> : r \in RulePool, q \in RulePool}

NameLists ==
    { <<>>, <<<<>>>>, <<<<"first rule">>>>, <<<<"first rule">>, <<"second rule">>>> }

\* Configuration files and environments for LoadConfig. A file that does not
\* exist has no keys; files that LoadConfig fails on are left out, since main
\* exits on them before it builds any guardrail.
ConfigFiles ==
    { ConfigFile("notexist", Absent, Absent, Absent, Absent, Absent) }
        \cup { ConfigFile("ok", w, Absent, r, c, l) :
                  w \in {Absent, Present(<<<<"A">>>>)},
                  r \in {Absent,
                         Present(<<RuleConfig(<<"Max Words">>, <<"word_count">>,
                                              IntValue(1), NilValue)>>)},
                  c \in {Absent, Present(1)},
                  l \in {Absent, Present(-1), Present(0), Present(2)} }

Environs ==
    { Environ(<<>>), Environ(<<"b">>), Environ(<<"a", ",", ",", "b">>) }

\* Prompts at the default limit of the prompt length and one byte over it
LongContents ==
    { [i \in 1..DefaultMaxPromptLength |-> "a"],
      [i \in 1..(DefaultMaxPromptLength + 1) |-> "a"] }

InitServerIdle ==
    /\ pc = <<>>
    /\ prompt = <<>>
    /\ metrics = <<>>
    /\ responses = <<>>
    /\ queryCalls = <<>>
    /\ upstream = <<>>
    /\ logged = <<>>

NoResult == [done |-> FALSE, err |-> NilError, called |-> <<>>]

InitGuard ==
    /\ \/ \E W \in WordLists :
             /\ input = [ctor |-> "NewBannedWordsGuardrail", arg |-> W]
             /\ grd = NewBannedWordsGuardrail(W)
       \/ \E gs \in GuardrailLists :
             /\ input = [ctor |-> "NewCompositeGuardrail", arg |-> gs]
             /\ grd = NewCompositeGuardrail(gs)
       \/ \E cfg \in Configs \cup WordCountConfigs :
             /\ input = [ctor |-> "main", arg |-> cfg]
             /\ grd = MainGuardrail(cfg)
       \/ \E patterns \in PatternLists :
             /\ input = [ctor |-> "NewRegexGuardrail", arg |-> patterns,
                         err |-> NewRegexGuardrail(patterns).err]
             /\ grd = NewRegexGuardrail(patterns).g
       \/ \E params \in ModelParamSets, x \in Exchanges :
             /\ input = [ctor |-> "Query", arg |-> [modelParams |-> params, exchange |-> x]]
             /\ grd = [kind |-> "nil"]
       \/ \E rules \in RuleLists, names \in NameLists :
             /\ input = [ctor |-> "NewCustomRuleGuardrail",
                         arg |-> [rules |-> rules, names |-> names]]
             /\ grd = NewCustomRuleGuardrail(rules, names)
       \/ \E file \in ConfigFiles, env \in Environs :
             /\ input = [ctor |-> "LoadConfig", arg |-> [file |-> file, env |-> env]]
             /\ grd = MainGuardrail(LoadConfig(file, env).cfg)
    /\ \/ input.ctor # "Query" /\ content \in Contents
       \/ input.ctor = "LoadConfig" /\ content \in LongContents
       \/ input.ctor = "Query" /\ content \in ServerPrompts
    /\ result = NoResult
    /\ InitServerIdle

\* One call of grd.Check(content), on a guardrail that was constructed
ApplyCheck ==
    /\ ~result.done
    /\ grd.kind # "nil"
    /\ result' = [done |-> TRUE, err |-> Run(grd, content).err,
                  called |-> Run(grd, content).called]
    /\ UNCHANGED <<input, grd, content>>
    /\ UNCHANGED serverVars

\* One call of llmClient.Query(content, modelParams): the request it sends
\* and what it returns on the exchange that follows
ApplyQuery ==
    /\ ~result.done
    /\ input.ctor = "Query"
    /\ LET q == Query(input.arg.exchange) IN
          result' = [done |-> TRUE, err |-> q.err, called |-> <<>>,
                     sent |-> Marshal(ChatRequest(content, input.arg.modelParams)),
                     completion |-> q.completion, tokens |-> q.tokens]
    /\ UNCHANGED <<input, grd, content>>
    /\ UNCHANGED serverVars

NextGuard == ApplyCheck \/ ApplyQuery

SpecGuard == InitGuard /\ [][NextGuard]_vars

(***************************************************************************)
(* The server: requests handled concurrently against one guardrail.        *)
(***************************************************************************)
\* The configurations of the server: no rule, and the word "A" banned with
\* prompts limited to 2 bytes; max_content_length is 2 in both
ServerConfigs ==
    { LoadConfig(ConfigFile("ok", Absent, Absent, Absent, Present(2), Present(0)),
                 Environ(<<>>)).cfg,
      LoadConfig(ConfigFile("ok", Present(<<<<"A">>>>), Absent, Absent,
                            Present(2), Present(2)),
                 Environ(<<>>)).cfg }

Init ==
    /\ \E cfg \in ServerConfigs :
          /\ input = [ctor |-> "main", arg |-> cfg]
          /\ grd = MainGuardrail(cfg)
    /\ content = <<>>
    /\ result = NoResult
    /\ pc = [r \in Requests |-> "Idle"]
    /\ prompt = [r \in Requests |-> <<>>]
    /\ metrics = NewMetrics
    /\ responses = [r \in Requests |-> <<>>]
    /\ queryCalls = [r \in Requests |-> 0]
    /\ upstream = [r \in Requests |-> NoExchange]
    /\ logged = [r \in Requests |-> <<>>]

Next ==
    \E r \in Requests :
        \/ \E body \in RequestBodies : Receive(r, body)
        \/ BeginScreening(r)
        \/ Screen(r)
        \/ CallUpstream(r)
        \/ \E x \in Exchanges : UpstreamReturn(r, x)

Spec == Init /\ [][Next]_vars

\* Every handler that can take a step eventually takes it: a goroutine is
\* scheduled, and the upstream call returns within the client's timeout
Fairness ==
    \A r \in Requests :
        /\ WF_vars(BeginScreening(r))
        /\ WF_vars(Screen(r))
        /\ WF_vars(CallUpstream(r))
        /\ WF_vars(\E x \in Exchanges : UpstreamReturn(r, x))

FairSpec == Spec /\ Fairness

(***************************************************************************)
(* Properties of the guardrails (checked under SpecGuard).                 *)
(***************************************************************************)
Min(S) == CHOOSE x \in S : \A y \in S : x <= y

\* The guardrails of a list that block the content, each on its own
Blocking(gs, c) == {i \in 1..Len(gs) : Check(gs[i], c).isErr}

LengthOne ==
    NewCustomRuleGuardrail(<<RuleFunc("lengthCheckRule", 1, <<>>)>>,
                           <<<<"prompt length check">>>>)

\* C1: CompositeGuardrail.Check calls its guardrails in insertion order and
\* stops at the first that blocks: the error returned is the one of the
\* earliest blocking guardrail of the list, the guardrails called are exactly
\* those up to it, and when none blocks all are called and nil is returned.
C1_FirstBlockWins ==
    (result.done /\ input.ctor = "NewCompositeGuardrail") =>
        LET gs == input.arg
            B == Blocking(gs, content)
        IN IF B = {}
           THEN /\ result.err = NilError
                /\ result.called = [i \in 1..Len(gs) |-> i]
           ELSE /\ result.err = Check(gs[Min(B)], content)
                /\ result.called = [i \in 1..Min(B) |-> i]

\* R = [BannedWords(["a"]), Length(1)] with content "aa", which violates both:
\* the banned-words reason is reported and the length rule is not called.
C1_Witness ==
    /\ result.done
    /\ input.ctor = "NewCompositeGuardrail"
    /\ input.arg = <<NewBannedWordsGuardrail(<<<<"a">>>>), LengthOne>>
    /\ content = <<"a", "a">>
    /\ Blocking(input.arg, content) = {1, 2}
    /\ result.err = Errorf(<<"content contains banned word: ", "a">>)
    /\ result.called = <<1>>

\* main built no component out of the configuration
NoComponentBuilt(cfg) ==
    /\ cfg.BannedWords = <<>>
    /\ cfg.RegexPatterns = <<>> \/ \E i \in 1..Len(cfg.RegexPatterns) :
                                      ~Compile(cfg.RegexPatterns[i]).ok
    /\ cfg.MaxPromptLength <= 0
    /\ \A i \in 1..Len(cfg.CustomRules) :
          LET rc == cfg.CustomRules[i] IN
          \/ rc.Type \notin {<<"word_count">>, <<"contains_pattern">>}
          \/ rc.Type = <<"word_count">>
                /\ rc.Parameters.max_words.t \notin {"int", "int64", "float32", "float64"}
          \/ rc.Type = <<"contains_pattern">> /\ rc.Parameters.pattern.t # "string"

\* C9: with no rules every content passes: the composite over an empty list
\* returns nil, and so does the guardrail main installs when it built no
\* component, which is the default pass-through.
C9_EmptyRuleSetPasses ==
    /\ (input.ctor = "main" /\ NoComponentBuilt(input.arg)) => grd = DefaultPassthrough
    /\ (/\ result.done
        /\ \/ input.ctor = "NewCompositeGuardrail" /\ input.arg = <<>>
           \/ input.ctor = "main" /\ NoComponentBuilt(input.arg))
       => result.err = NilError

\* main installed the default pass-through although custom rules and
\* patterns were configured (none of them valid), and Check was called on a
\* content of the greatest length.
C9_Witness ==
    /\ result.done
    /\ input.ctor = "main"
    /\ NoComponentBuilt(input.arg)
    /\ Len(input.arg.CustomRules) = 2
    /\ input.arg.RegexPatterns # <<>>
    /\ grd = DefaultPassthrough
    /\ Len(content) = MaxContentLen
    /\ result.err = NilError

\* Two characters are the same letter, case ignored
SameLetter(c, d) == c = d \/ {c, d} \in {{"a", "A"}, {"b", "B"}}

\* s holds w as a substring under case-insensitive comparison
ContainsFold(s, w) ==
    \E i \in 0..(Len(s) - Len(w)) :
        \A j \in 1..Len(w) : SameLetter(s[i + j], w[j])

\* C10: for a non-empty banned-word list W, Check(C) blocks exactly when C
\* holds some word of W as a substring under case-insensitive comparison.
C10_BannedWordsBlockIffContained ==
    (result.done /\ input.ctor = "NewBannedWordsGuardrail" /\ input.arg # <<>>) =>
        (result.err.isErr <=>
            \E i \in 1..Len(input.arg) : ContainsFold(content, input.arg[i]))

\* The word "Ab" is found in "baB": in another mix of cases and inside a
\* longer word.
C10_Witness ==
    /\ result.done
    /\ input.ctor = "NewBannedWordsGuardrail"
    /\ input.arg = <<<<"A", "b">>>>
    /\ content = <<"b", "a", "b">>
    /\ result.err = Errorf(<<"content contains banned word: ", "a", "b">>)

(***************************************************************************)
(* Properties of the request handler (checked under Spec).                 *)
(***************************************************************************)
PassedScreening ==
    {"Forwarding", "AwaitingUpstream", "UpstreamFailed", "Completed", "Panicked"}

\* Request r leaves the state s in this step
Leaves(r, s) == pc[r] = s /\ pc'[r] # s

GenericFailure ==
    Response(StatusInternalServerError, "error", <<"Error communicating with LLM">>)

\* C2: a request whose prompt is blocked makes no upstream call, a request
\* whose prompt passed makes exactly one once it is handled, and no request
\* ever makes a second call, an upstream failure included.
C2_AtMostOneUpstreamCall ==
    \A r \in Requests :
        /\ queryCalls[r] <= 1
        /\ pc[r] \in {"Idle", "Invalid", "Received", "Screening", "Rejected", "Forwarding"}
              => queryCalls[r] = 0
        /\ pc[r] \in {"AwaitingUpstream", "UpstreamFailed", "Completed", "Panicked"}
              => queryCalls[r] = 1

\* One request was blocked without a call, another failed upstream after
\* its only call.
C2_Witness ==
    \E r, q \in Requests :
        /\ pc[r] = "Rejected" /\ queryCalls[r] = 0
        /\ pc[q] = "UpstreamFailed" /\ queryCalls[q] = 1

\* C3: when screening blocks a prompt the request ends Rejected, the
\* guardrail-blocks counter grows by one and the other three counters are
\* unchanged, and the one response is a 400 carrying the rule's reason.
C3_BlockedFrame ==
    [][\A r \in Requests :
          (Leaves(r, "Screening") /\ Check(grd, prompt[r]).isErr) =>
              /\ pc'[r] = "Rejected"
              /\ metrics' = [metrics EXCEPT !.GuardrailBlocksTotal = @ + 1]
              /\ Len(responses'[r]) = 1
              /\ responses'[r][1].status = StatusBadRequest
              /\ responses'[r][1].key = "error"
              /\ Tail(responses'[r][1].text) = Check(grd, prompt[r]).text]_vars

\* A prompt holding the banned word was rejected with that reason, only the
\* guardrail-blocks counter having moved.
C3_Witness ==
    \E r \in Requests :
        /\ pc[r] = "Rejected"
        /\ metrics = [NewMetrics EXCEPT !.GuardrailBlocksTotal = 1]
        /\ responses[r] = <<Response(StatusBadRequest, "error",
              <<"Request blocked by guardrail: ", "content contains banned word: ", "a">>)>>

\* C4: when screening passes a prompt the requests-attempted counter grows
\* by one and the guardrail-blocks counter is unchanged; this happens
\* before the upstream call, and the count stays whatever the call returns:
\* the counter always equals the number of requests that passed screening.
C4_AttemptCountedBeforeCall ==
    /\ [](metrics.LLMRequestsTotal =
              Cardinality({r \in Requests : pc[r] \in PassedScreening}))
    /\ [][\A r \in Requests :
            /\ (Leaves(r, "Screening") /\ ~Check(grd, prompt[r]).isErr) =>
                  /\ metrics'.LLMRequestsTotal = metrics.LLMRequestsTotal + 1
                  /\ metrics'.GuardrailBlocksTotal = metrics.GuardrailBlocksTotal
                  /\ queryCalls'[r] = 0
            /\ queryCalls'[r] # queryCalls[r] =>
                  /\ pc[r] = "Forwarding"
                  /\ metrics'.LLMRequestsTotal = metrics.LLMRequestsTotal]_vars

\* Two requests passed screening and were counted; one failed upstream and
\* one completed.
C4_Witness ==
    \E r, q \in Requests :
        /\ pc[r] = "UpstreamFailed"
        /\ pc[q] = "Completed"
        /\ metrics.LLMRequestsTotal = 2
        /\ metrics.GuardrailBlocksTotal = 0

\* C5: when the upstream call returns an error, whatever its cause, the
\* request ends UpstreamFailed, the upstream-errors counter grows by one and
\* the other counters are unchanged, and the one response holds no completion.
C5_UpstreamErrorFrame ==
    [][\A r \in Requests :
          (Leaves(r, "AwaitingUpstream") /\ Query(upstream'[r]).err.isErr) =>
              /\ pc'[r] = "UpstreamFailed"
              /\ metrics' = [metrics EXCEPT !.LLMErrorsTotal = @ + 1]
              /\ Len(responses'[r]) = 1
              /\ responses'[r][1].key # "completion"
              /\ responses'[r][1].status # StatusOK]_vars

\* Both requests failed upstream, one on a transport error and one on an
\* empty choice list, and each was counted as an error.
C5_Witness ==
    \E r, q \in Requests :
        /\ pc[r] = "UpstreamFailed" /\ upstream[r].transport = "error"
        /\ pc[q] = "UpstreamFailed" /\ upstream[q].status = StatusOK
        /\ upstream[q].body.json /\ upstream[q].body.choices = <<>>
        /\ metrics = [NewMetrics EXCEPT !.LLMRequestsTotal = 2, !.LLMErrorsTotal = 2]

\* C6: the response of a request that ends UpstreamFailed does not depend on
\* the upstream error: any two such requests got the same response, status
\* 500 with the fixed message.
C6_FailureResponseIndependent ==
    \A r, q \in Requests :
        (pc[r] = "UpstreamFailed" /\ pc[q] = "UpstreamFailed") =>
            /\ responses[r] = responses[q]
            /\ responses[r] = <<GenericFailure>>

\* Two requests failed upstream for different causes, logged differently,
\* and got the same response.
C6_Witness ==
    \E r, q \in Requests :
        /\ pc[r] = "UpstreamFailed" /\ pc[q] = "UpstreamFailed"
        /\ upstream[r].transport = "error"
        /\ upstream[q].status = StatusInternalServerError
        /\ logged[r] # logged[q]
        /\ responses[r] = responses[q]

\* The upstream call succeeded with at least one completion choice
UpstreamSucceeded(x) ==
    /\ x.transport = "ok"
    /\ x.status = StatusOK
    /\ x.body.json
    /\ Len(x.body.choices) >= 1

\* C7: whenever the upstream call succeeds with at least one choice, for
\* every token count reported, the request ends Completed, the
\* tokens-consumed counter grows by exactly the reported count, the other
\* counters are unchanged and the client receives the first choice's text.
C7_CompletedFrame ==
    [][\A r \in Requests :
          (Leaves(r, "AwaitingUpstream") /\ UpstreamSucceeded(upstream'[r])) =>
              /\ pc'[r] = "Completed"
              /\ metrics'.LLMTokensTotal =
                    metrics.LLMTokensTotal + upstream'[r].body.total_tokens
              /\ metrics'.LLMErrorsTotal = metrics.LLMErrorsTotal
              /\ metrics'.GuardrailBlocksTotal = metrics.GuardrailBlocksTotal
              /\ responses'[r] =
                    <<Response(StatusOK, "completion", upstream'[r].body.choices[1])>>]_vars

\* C8: a request whose prompt was received and whose handler has returned
\* is in exactly one of Rejected, UpstreamFailed and Completed, with exactly
\* one response; it was screened, and it was forwarded only if it passed.
C8_EndsInTerminalState ==
    \A r \in Requests :
        (pc[r] \notin {"Idle", "Invalid", "Received", "Screening",
                       "Forwarding", "AwaitingUpstream"}) =>
            /\ pc[r] \in {"Rejected", "UpstreamFailed", "Completed"}
            /\ Len(responses[r]) = 1
            /\ queryCalls[r] > 0 => ~Check(grd, prompt[r]).isErr

(***************************************************************************)
(* Properties of the guardrail construction (checked under SpecGuard).     *)
(***************************************************************************)
\* The guardrail was built by main from a configuration
FromConfig == input.ctor \in {"main", "LoadConfig"}

\* The configuration main built the guardrail from
BuiltFrom ==
    IF input.ctor = "LoadConfig"
    THEN LoadConfig(input.arg.file, input.arg.env).cfg
    ELSE input.arg

\* The rules of the installed guardrail; the pass-through stands for none
Components(g) == IF g.kind = "Composite" THEN g.Guardrails ELSE <<>>

\* Place of a rule in the build order: banned words, patterns, prompt
\* length, custom entries
Rank(g) ==
    CASE g.kind = "BannedWords" -> 1
      [] g.kind = "Regex" -> 2
      [] g.kind = "CustomRule" /\ g.Rules[1].fn = "lengthCheckRule" -> 3
      [] OTHER -> 4

\* The parameter of a custom entry has the type its kind asks for
WellTyped(rc) ==
    \/ rc.Type = <<"word_count">>
          /\ rc.Parameters.max_words.t \in {"int", "int64", "float32", "float64"}
    \/ rc.Type = <<"contains_pattern">> /\ rc.Parameters.pattern.t = "string"

\* A custom entry is well-formed: a known kind, a parameter of the right
\* type and, for a pattern, valid regular expression syntax
WellFormed(rc) ==
    /\ WellTyped(rc)
    /\ rc.Type = <<"contains_pattern">> =>
          \A i \in 1..Len(rc.Parameters.pattern.s) : rc.Parameters.pattern.s[i] # "("

\* The closure a custom entry of a known kind is built into
RuleOfKind(rc) ==
    IF rc.Type = <<"word_count">> THEN "wordCountRule" ELSE "patternRule"

\* The rules of gs after the first n are, one for one and in order, the
\* rules of the custom entries es
CustomRulesAre(gs, n, es) ==
    /\ Len(gs) = n + Len(es)
    /\ \A i \in 1..Len(es) :
          /\ gs[n + i].kind = "CustomRule"
          /\ gs[n + i].Names = <<es[i].Name>>
          /\ Len(gs[n + i].Rules) = 1
          /\ gs[n + i].Rules[1].fn = RuleOfKind(es[i])

\* Number of built-in rules (banned words, patterns, prompt length) in gs
BuiltIns(gs) == Cardinality({i \in 1..Len(gs) : Rank(gs[i]) < 4})

\* C11: the rules main installs are ordered banned words (present exactly
\* when a word is configured), patterns (only when a pattern is configured),
\* prompt length (present exactly when the bound is positive), then one rule
\* per custom entry that main builds a rule for, in configuration order; and
\* the reason Check reports is the one of the earliest blocking rule.
C11_BuildOrder ==
    FromConfig =>
        LET cfg == BuiltFrom
            gs == Components(grd)
            B == Blocking(gs, content)
        IN /\ \A i, j \in 1..Len(gs) :
                 i < j => /\ Rank(gs[i]) <= Rank(gs[j])
                          /\ Rank(gs[i]) = Rank(gs[j]) => Rank(gs[i]) = 4
           /\ (\E i \in 1..Len(gs) : Rank(gs[i]) = 1) <=> Len(cfg.BannedWords) > 0
           /\ (\E i \in 1..Len(gs) : Rank(gs[i]) = 2) => Len(cfg.RegexPatterns) > 0
           /\ (\E i \in 1..Len(gs) : Rank(gs[i]) = 3) <=> cfg.MaxPromptLength > 0
           /\ CustomRulesAre(gs, BuiltIns(gs), SelectSeq(cfg.CustomRules, WellTyped))
           /\ result.done =>
                 IF B = {} THEN result.err = NilError
                 ELSE result.err = Check(gs[Min(B)], content)

\* All four kinds are configured and "a b" violates every rule: the rules
\* stand in build order and the banned-words reason is the one reported.
C11_Witness ==
    /\ result.done
    /\ input.ctor = "main"
    /\ input.arg.BannedWords = <<<<"A">>>>
    /\ input.arg.RegexPatterns = <<<<"b">>>>
    /\ input.arg.MaxPromptLength = 2
    /\ input.arg.CustomRules =
          << RuleConfig(<<"Max Words">>, <<"word_count">>, IntValue(1), NilValue),
             RuleConfig(<<"PII">>, <<"contains_pattern">>, NilValue, StringValue(<<"a">>)) >>
    /\ content = <<"a", " ", "b">>
    /\ [i \in 1..Len(Components(grd)) |-> Rank(Components(grd)[i])] = <<1, 2, 3, 4, 4>>
    /\ Components(grd)[4].Names = <<<<"Max Words">>>>
    /\ Blocking(Components(grd), content) = 1..5
    /\ result.err = Errorf(<<"content contains banned word: ", "a">>)

\* C12: of the custom entries of the configuration, exactly the well-formed
\* ones are rules of the installed guardrail, one for one and in order; an
\* entry with an unknown kind, a missing or mis-typed parameter or invalid
\* regular expression syntax is not among the rules.
C12_ExactlyTheWellFormedRules ==
    FromConfig =>
        LET gs == Components(grd) IN
        CustomRulesAre(gs, BuiltIns(gs), SelectSeq(BuiltFrom.CustomRules, WellFormed))

\* C13: a contains_pattern entry whose pattern is a string that does not
\* compile is skipped: no rule of the installed guardrail evaluates that
\* pattern.
C13_UncompilablePatternSkipped ==
    FromConfig =>
        \A i \in 1..Len(BuiltFrom.CustomRules) :
            LET rc == BuiltFrom.CustomRules[i] IN
            (/\ rc.Type = <<"contains_pattern">>
             /\ rc.Parameters.pattern.t = "string"
             /\ ~Compile(rc.Parameters.pattern.s).ok)
            => \A k \in 1..Len(Components(grd)) :
                  \/ Components(grd)[k].kind # "CustomRule"
                  \/ \A j \in 1..Len(Components(grd)[k].Rules) :
                        Components(grd)[k].Rules[j] #
                            RuleFunc("patternRule", 0, rc.Parameters.pattern.s)

\* A custom entry main skips: an unknown kind, a max_words that is missing
\* or not a number, a pattern that is missing or not a string
Skipped(rc) ==
    \/ rc.Type \notin {<<"word_count">>, <<"contains_pattern">>}
    \/ rc.Type = <<"word_count">>
          /\ rc.Parameters.max_words.t \in {"nil", "string"}
    \/ rc.Type = <<"contains_pattern">>
          /\ rc.Parameters.pattern.t \in {"nil", "int", "int64", "float32", "float64"}

RemoveAt(s, i) == SubSeq(s, 1, i - 1) \o SubSeq(s, i + 1, Len(s))

\* C14: a skipped custom entry has no effect on the build: the guardrail
\* installed equals the one main builds from the same configuration with the
\* entry removed, and Check returns what that guardrail returns.
C14_SkippedEntryHasNoEffect ==
    input.ctor = "main" =>
        \A i \in 1..Len(input.arg.CustomRules) :
            Skipped(input.arg.CustomRules[i]) =>
                LET without == MainGuardrail(
                        [input.arg EXCEPT !.CustomRules = RemoveAt(@, i)])
                IN /\ grd = without
                   /\ result.done => result.err = Check(without, content)

\* A pattern entry whose parameter is a number stands before a word_count
\* entry: the rule of the second is installed as if the first were not
\* there, and it blocks "a b".
C14_Witness ==
    /\ result.done
    /\ input.ctor = "main"
    /\ input.arg.BannedWords = <<>> /\ input.arg.RegexPatterns = <<>>
    /\ input.arg.MaxPromptLength = 0
    /\ input.arg.CustomRules =
          << RuleConfig(<<"Numeric">>, <<"contains_pattern">>, NilValue, IntValue(1)),
             RuleConfig(<<"Max Words">>, <<"word_count">>, IntValue(1), NilValue) >>
    /\ Len(Components(grd)) = 1
    /\ Components(grd)[1].Names = <<<<"Max Words">>>>
    /\ content = <<"a", " ", "b">>
    /\ result.err = Errorf(<<"content blocked by ", "Max Words", ": ", "text contains ",
                             "2", " words, exceeding limit of ", "1">>)

\* Number of whitespace-delimited tokens of s, counted at their last character
Tokens(s) ==
    Cardinality({i \in 1..Len(s) :
        s[i] # " " /\ (i = Len(s) \/ s[i + 1] = " ")})

\* The number a numeric parameter stands for, in tenths
Tenths(v) == IF v.t \in {"int", "int64"} THEN 10 * v.n ELSE v.n

\* The number truncated to an integer: the whole number nearest to it
\* between zero and the number
Truncated(v) ==
    CHOOSE k \in (-2)..(MaxWordsBound + 1) :
        IF Tenths(v) >= 0
        THEN 10 * k <= Tenths(v) /\ Tenths(v) < 10 * k + 10
        ELSE 10 * k >= Tenths(v) /\ Tenths(v) > 10 * k - 10

\* The configuration holds one word_count rule with a numeric bound and
\* nothing else
WordCountOnly == input.ctor = "main" /\ input.arg \in WordCountConfigs

\* C15: a word_count rule blocks exactly when the number of whitespace-
\* delimited tokens of the content exceeds the bound truncated to an integer,
\* and every representation (int, int64, float32, float64) of the same
\* number gives the same result on the same content.
C15_WordCountAnyRepresentation ==
    (result.done /\ WordCountOnly) =>
        LET v == input.arg.CustomRules[1].Parameters.max_words IN
        /\ result.err.isErr <=> Tokens(content) > Truncated(v)
        /\ \A u \in WordCountBounds :
              Tenths(u) = Tenths(v) =>
                 Check(MainGuardrail(
                     [input.arg EXCEPT !.CustomRules[1].Parameters.max_words = u]),
                     content) = result.err

\* The bound float32(1.0), which is also configured as 1, 1.0 and int64(1),
\* blocks the two words of "a b".
C15_Witness ==
    /\ result.done
    /\ WordCountOnly
    /\ input.arg.CustomRules[1].Parameters.max_words = Float32Value(10)
    /\ {u.t : u \in {w \in WordCountBounds : Tenths(w) = 10}}
          = {"int", "int64", "float32", "float64"}
    /\ content = <<"a", " ", "b">>
    /\ result.err.isErr
    /\ result.err.text = <<"content blocked by ", "Max Words", ": ", "text contains ",
                          "2", " words, exceeding limit of ", "1">>

\* The configuration file is missing or has no max_prompt_length key
PromptLengthAbsent ==
    /\ input.ctor = "LoadConfig"
    /\ input.arg.file.state = "notexist" \/ ~input.arg.file.max_prompt_length.set

\* The reason of the prompt length rule for the bound n
LengthReason(n) ==
    Errorf(<<"content blocked by ", "prompt length check", ": ",
             "prompt exceeds maximum length of ">> \o Itoa(n) \o <<" characters">>)

\* The prompt length rules of the installed guardrail
LengthRules == {k \in 1..Len(Components(grd)) : Rank(Components(grd)[k]) = 3}

\* C16 as claimed: when max_prompt_length is absent from the configuration
\* the installed guardrail holds no prompt length rule and no content is
\* blocked for its length.
C16_AbsentDisablesLengthCheck ==
    PromptLengthAbsent =>
        /\ LengthRules = {}
        /\ result.done =>
              SubSeq(result.err.text, 1, 2) #
                  <<"content blocked by ", "prompt length check">>

\* C16 as amended: when max_prompt_length is absent the default of 4000
\* applies: the installed guardrail holds one prompt length rule with that
\* bound, a content is blocked for its length exactly when it is longer than
\* 4000 bytes and no earlier rule blocks it; the rule is left out only when
\* the option is set to zero or less.
C16_AbsentMeansDefaultLimit ==
    input.ctor = "LoadConfig" =>
        LET gs == Components(grd)
            key == input.arg.file.max_prompt_length
        IN /\ PromptLengthAbsent =>
                /\ \E k \in 1..Len(gs) :
                      /\ LengthRules = {k}
                      /\ gs[k].Rules = <<RuleFunc("lengthCheckRule", 4000, <<>>)>>
                /\ result.done =>
                      /\ ByteLen(content) > 4000 => result.err.isErr
                      /\ result.err = LengthReason(4000) <=>
                            /\ ByteLen(content) > 4000
                            /\ \A k \in 1..Len(gs) :
                                  Rank(gs[k]) < 3 => ~Check(gs[k], content).isErr
           /\ (~PromptLengthAbsent /\ key.v <= 0) => LengthRules = {}

\* No configuration file and no environment variable: a prompt of 4001
\* bytes is blocked by the prompt length rule of the default bound.
C16_Witness ==
    /\ result.done
    /\ input.ctor = "LoadConfig"
    /\ input.arg.file.state = "notexist"
    /\ input.arg.env.BANNED_WORDS = <<>>
    /\ Len(Components(grd)) = 1
    /\ ByteLen(content) = 4001
    /\ result.err = LengthReason(4000)
    /\ result.err.text = <<"content blocked by ", "prompt length check", ": ",
                          "prompt exceeds maximum length of ", "4", "0", "0", "0",
                          " characters">>

\* The index of the first rule of a CustomRuleGuardrail that matches c
FirstMatch(rules, c) ==
    Min({i \in 1..Len(rules) : CallRule(rules[i], c).matched})

\* C17: a blocking custom rule whose name was omitted is reported under the
\* label "custom rule": a rule built from a configuration entry without a
\* name, and a rule of a CustomRuleGuardrail that has fewer names than rules.
C17_OmittedNameGetsDefaultLabel ==
    (result.done /\ result.err.isErr) =>
        /\ FromConfig =>
              LET gs == Components(grd)
                  k == Min(Blocking(gs, content))
                  built == SelectSeq(BuiltFrom.CustomRules, WellTyped)
              IN (Rank(gs[k]) = 4 /\ built[k - BuiltIns(gs)].Name = <<>>) =>
                    SubSeq(result.err.text, 1, 2) = <<"content blocked by ", "custom rule">>
        /\ input.ctor = "NewCustomRuleGuardrail" =>
              (FirstMatch(input.arg.rules, content) > Len(input.arg.names) =>
                    SubSeq(result.err.text, 1, 2) = <<"content blocked by ", "custom rule">>)

\* C18 as claimed: whatever the kind of the rule that blocks, the reason has
\* the form "blocked by {name}: {detail}", or "blocked by {name}" when the
\* detail is empty.
C18_EveryReasonNamesItsRule ==
    (result.done /\ result.err.isErr) =>
        /\ result.err.text[1] = "content blocked by "
        /\ \A i \in 2..Len(result.err.text) :
              result.err.text[i] = ": " => i < Len(result.err.text)

\* C18 as amended: a blocking rule of a CustomRuleGuardrail is reported as
\* "content blocked by {name}: {detail}" when its detail is not empty and as
\* "content blocked by {name}" when it is, the name being the entry of Names
\* for the rule, or "custom rule" when Names has none; the banned words
\* guardrail reports "content contains banned word: {word}" and the regex
\* guardrail "content matches forbidden pattern: {pattern}".
C18_CustomRuleReasonForm ==
    (result.done /\ result.err.isErr) =>
        /\ input.ctor = "NewCustomRuleGuardrail" =>
              LET i == FirstMatch(input.arg.rules, content)
                  name == IF i <= Len(input.arg.names) THEN input.arg.names[i]
                          ELSE <<"custom rule">>
                  detail == CallRule(input.arg.rules[i], content).details
              IN result.err.text =
                    IF detail = <<>> THEN <<"content blocked by ">> \o name
                    ELSE <<"content blocked by ">> \o name \o <<": ">> \o detail
        /\ input.ctor = "NewBannedWordsGuardrail" =>
              \E i \in 1..Len(input.arg) :
                  result.err.text = <<"content contains banned word: ">>
                                        \o ToLower(input.arg[i])
        /\ input.ctor = "NewRegexGuardrail" =>
              \E i \in 1..Len(input.arg) :
                  result.err.text = <<"content matches forbidden pattern: ">>
                                        \o input.arg[i]

\* A rule that reports no detail blocks "a" under its name, and the reason
\* ends with the name.
C18_Witness ==
    /\ result.done
    /\ input.ctor = "NewCustomRuleGuardrail"
    /\ input.arg.rules = <<RuleFunc("callerRule", 0, <<>>)>>
    /\ input.arg.names = <<<<"first rule">>>>
    /\ content = <<"a">>
    /\ result.err = Errorf(<<"content blocked by ", "first rule">>)

\* The input is one built-in rule with a configuration the claim admits
BuiltInRule ==
    \/ input.ctor = "NewBannedWordsGuardrail" /\ input.arg # <<>>
    \/ input.ctor = "NewRegexGuardrail" /\ grd.kind = "Regex"
    \/ WordCountOnly
    \/ /\ input.ctor = "main"
       /\ input.arg.BannedWords = <<>> /\ input.arg.RegexPatterns = <<>>
       /\ input.arg.CustomRules = <<>> /\ input.arg.MaxPromptLength > 0

MatchesEmpty(pattern) == MatchString(Compile(pattern).prog, <<>>)

Screened == PassedScreening \cup {"Rejected"}

\* The handler states after the upstream call returned
Answered == {"UpstreamFailed", "Completed", "Panicked"}

C24_QueryErrors ==
    (result.done /\ input.ctor = "Query") =>
        LET x == input.arg.exchange IN
        /\ (\/ x.transport = "error"
            \/ x.status \notin 200..299
            \/ ~x.body.json
            \/ x.body.choices = <<>>)
           => /\ result.err.isErr
              /\ result.completion = <<>>
              /\ result.tokens = 0
        /\ ~result.err.isErr =>
              /\ x.transport = "ok"
              /\ x.status \in 200..299
              /\ x.body.json
              /\ Len(x.body.choices) >= 1
              /\ result.completion = x.body.choices[1]
              /\ result.tokens = x.body.total_tokens

\* The upstream answers 200 with a JSON body that holds no choice: Query
\* returns the error "no completion found in response".
C24_Witness ==
    /\ result.done
    /\ input.ctor = "Query"
    /\ input.arg.exchange.status = 200
    /\ input.arg.exchange.body.json
    /\ input.arg.exchange.body.choices = <<>>
    /\ input.arg.exchange.body.total_tokens = 1
    /\ result.err = Errorf(<<"no completion found in response">>)
    /\ result.completion = <<>>
    /\ result.tokens = 0

\* A number that is a whole number (the payload is in tenths)
IsInteger(v) == v.t = "float64" /\ v.n % 10 = 0

\* C25: each of model, temperature and max_tokens is sent upstream with the
\* caller's value when the key holds a value of the documented type (string,
\* float, integer) and with the default ("gpt-3.5-turbo", 0.7, 256)
\* otherwise, whatever the other two keys hold.
C25_ParamsOverrideOrDefault ==
    (result.done /\ input.ctor = "Query") =>
        LET p == input.arg.modelParams IN
        /\ result.sent.model =
              Present(IF p.model.t = "string" THEN p.model.s ELSE <<"gpt-3.5-turbo">>)
        /\ result.sent.temperature =
              Present(IF p.temperature.t = "float64" THEN p.temperature.n ELSE 7)
        /\ result.sent.max_tokens =
              Present(IF IsInteger(p.max_tokens) THEN p.max_tokens.n \div 10 ELSE 256)

\* The patterns of a list that do not compile: those that open a group
InvalidPatterns(patterns) ==
    {i \in 1..Len(patterns) : \E j \in 1..Len(patterns[i]) : patterns[i][j] = "("}

\* C26: NewRegexGuardrail returns an error, and no guardrail, exactly when a
\* pattern of the list does not compile, and the error names the first such
\* pattern; otherwise the guardrail holds one compiled pattern per pattern
\* of the list, in order, and its Check returns nil or a match, never an
\* error of pattern syntax.
C26_RegexConstruction ==
    input.ctor = "NewRegexGuardrail" =>
        LET patterns == input.arg
            bad == InvalidPatterns(patterns)
        IN /\ input.err.isErr <=> bad # {}
           /\ bad # {} =>
                 /\ grd.kind = "nil"
                 /\ SubSeq(input.err.text, 1, Len(patterns[Min(bad)]) + 2)
                       = <<"invalid regex pattern '">> \o patterns[Min(bad)] \o <<"': ">>
           /\ bad = {} =>
                 /\ grd.kind = "Regex"
                 /\ grd.Names = patterns
                 /\ Len(grd.Patterns) = Len(patterns)
                 /\ \A i \in 1..Len(patterns) :
                       /\ Compile(patterns[i]).ok
                       /\ grd.Patterns[i] = Compile(patterns[i]).prog
                 /\ (result.done /\ result.err.isErr) =>
                       result.err.text[1] = "content matches forbidden pattern: "

\* The list holds "a." and then "(": the constructor returns no guardrail
\* and an error that names "(".
C26_Witness ==
    /\ input.ctor = "NewRegexGuardrail"
    /\ input.arg = << <<"a", ".">>, <<"(">> >>
    /\ grd.kind = "nil"
    /\ input.err.isErr
    /\ SubSeq(input.err.text, 1, 3) = <<"invalid regex pattern '", "(", "': ">>

\* The configuration holds a prompt length bound and nothing else
LengthOnly ==
    /\ FromConfig
    /\ BuiltFrom.BannedWords = <<>> /\ BuiltFrom.RegexPatterns = <<>>
    /\ BuiltFrom.CustomRules = <<>>

\* C27: with a positive bound B the prompt is blocked exactly when its
\* length in characters is greater than B; with a bound of zero or less no
\* prompt length rule is built.
C27_LengthStrictlyGreater ==
    LengthOnly =>
        /\ BuiltFrom.MaxPromptLength <= 0 => LengthRules = {}
        /\ (BuiltFrom.MaxPromptLength > 0 /\ result.done) =>
              (result.err.isErr <=> Len(content) > BuiltFrom.MaxPromptLength)

\* The words of a list that the content holds, case ignored
Found(words, c) == {i \in 1..Len(words) : ContainsFold(c, words[i])}

\* C28: when the content holds several banned words, Check reports the one
\* that stands first in the configured list, in lower case, wherever the
\* words occur in the content.
C28_FirstWordInListOrder ==
    (result.done /\ input.ctor = "NewBannedWordsGuardrail" /\ result.err.isErr) =>
        /\ Found(input.arg, content) # {}
        /\ result.err.text = <<"content contains banned word: ">>
                                \o ToLower(input.arg[Min(Found(input.arg, content))])

\* The list is "b", "a" and the content "ab": "a" occurs first in the
\* content and "b" is reported.
C28_Witness ==
    /\ result.done
    /\ input.ctor = "NewBannedWordsGuardrail"
    /\ input.arg = << <<"b">>, <<"a">> >>
    /\ content = <<"a", "b">>
    /\ Found(input.arg, content) = {1, 2}
    /\ result.err = Errorf(<<"content contains banned word: ", "b">>)

\* The pattern p, of literals and ".", matches some substring of s
MatchesSomewhere(p, s) ==
    \E a \in 1..(Len(s) + 1) :
        /\ a + Len(p) - 1 <= Len(s)
        /\ \A j \in 1..Len(p) : p[j] = "." \/ p[j] = s[a + j - 1]

\* C29: RegexGuardrail.Check blocks exactly when a pattern of the list
\* matches somewhere in the content; the pattern reported is the first of
\* the list that matches, by its original text; the empty list never blocks.
C29_RegexBlocksIffMatch ==
    (result.done /\ input.ctor = "NewRegexGuardrail") =>
        LET M == {i \in 1..Len(input.arg) : MatchesSomewhere(input.arg[i], content)}
        IN /\ result.err.isErr <=> M # {}
           /\ M # {} =>
                 result.err.text = <<"content matches forbidden pattern: ">>
                                      \o input.arg[Min(M)]
           /\ input.arg = <<>> => result.err = NilError

\* The list is "b", "." and the content "ab": "." matches at the first
\* character, "b" only at the second, and "b" is reported.
C29_Witness ==
    /\ result.done
    /\ input.ctor = "NewRegexGuardrail"
    /\ input.arg = << <<"b">>, <<".">> >>
    /\ content = <<"a", "b">>
    /\ result.err = Errorf(<<"content matches forbidden pattern: ", "b">>)

(***************************************************************************)
(* Properties of the counters and of the handler (checked under Spec).     *)
(***************************************************************************)
\* C21: no request is Completed with a completion longer than the
\* configured max_content_length.
C21_CompletionWithinContentLength ==
    \A r \in Requests :
        pc[r] = "Completed" =>
            ByteLen(responses[r][Len(responses[r])].text) <= input.arg.MaxContentLength

\* The handler states in which the handler has returned
Terminated == {"Invalid", "Rejected", "UpstreamFailed", "Completed", "Panicked"}

\* The requests in the state s
In(s) == {r \in Requests : pc[r] = s}

\* The sum of the token counts the upstream reported for the requests of S
RECURSIVE SumTokens(_)
SumTokens(S) ==
    IF S = {} THEN 0
    ELSE LET r == CHOOSE q \in S : TRUE
         IN upstream[r].body.total_tokens + SumTokens(S \ {r})

\* C22: once all requests have terminated, whatever the interleaving of
\* their handlers, each counter holds every update made to it: the blocks
\* are the Rejected requests, the attempts the requests that passed
\* screening, the errors the UpstreamFailed requests and the tokens the sum
\* of the token counts reported for the Completed requests.
C22_NoLostCounterUpdate ==
    (\A r \in Requests : pc[r] \in Terminated) =>
        /\ metrics.GuardrailBlocksTotal = Cardinality(In("Rejected"))
        /\ metrics.LLMRequestsTotal =
              Cardinality({r \in Requests : pc[r] \in PassedScreening})
        /\ metrics.LLMErrorsTotal = Cardinality(In("UpstreamFailed"))
        /\ metrics.LLMTokensTotal = SumTokens(In("Completed"))

\* Two requests were handled concurrently and both Completed, one with 1
\* token and one with 2: the token counter holds 3 and the attempts 2.
C22_Witness ==
    \E r, q \in Requests :
        /\ \A o \in Requests : pc[o] \in Terminated
        /\ pc[r] = "Completed" /\ pc[q] = "Completed"
        /\ upstream[r].body.total_tokens = 1
        /\ upstream[q].body.total_tokens = 2
        /\ metrics.LLMTokensTotal = 3
        /\ metrics.LLMRequestsTotal >= 2

InvalidResponse == Response(StatusBadRequest, "error", <<"Invalid request">>)

\* C23: a request whose body does not parse, or has no prompt or an empty
\* one, is answered 400 "Invalid request" in the step that receives it, with
\* no counter changed; it is never screened and never makes an upstream
\* call.
C23_InvalidBodyRejectedBeforeScreening ==
    /\ [](\A r \in Requests :
             pc[r] = "Invalid" =>
                /\ responses[r] = <<InvalidResponse>>
                /\ queryCalls[r] = 0
                /\ upstream[r] = NoExchange)
    /\ [][\A r \in Requests :
             /\ \A body \in RequestBodies :
                   (~(body.json /\ body.hasPrompt /\ body.prompt # <<>>)
                        /\ Receive(r, body))
                   => /\ pc'[r] = "Invalid"
                      /\ metrics' = metrics
                      /\ responses'[r] = <<InvalidResponse>>
             /\ pc[r] = "Invalid" => pc'[r] = "Invalid"]_vars

\* One request was rejected as invalid while another was blocked by a
\* guardrail: only the blocked one is counted.
C23_Witness ==
    \E r, q \in Requests :
        /\ pc[r] = "Invalid"
        /\ responses[r] = <<InvalidResponse>>
        /\ queryCalls[r] = 0
        /\ pc[q] = "Rejected"
        /\ metrics = [NewMetrics EXCEPT !.GuardrailBlocksTotal = 1]

\* The requests that passed screening and whose handler has not returned
InFlight == In("Forwarding") \cup In("AwaitingUpstream")

\* C30: in every reachable state the counters never decrease, the blocks
\* are the Rejected requests and the attempts the requests that passed
\* screening, errors plus Completed requests are at most the attempts and
\* the difference is the number of requests being forwarded; errors and
\* tokens are only increased by a request that was counted as an attempt.
C30_CounterInvariants ==
    /\ [](/\ metrics.GuardrailBlocksTotal = Cardinality(In("Rejected"))
          /\ metrics.LLMRequestsTotal =
                Cardinality({r \in Requests : pc[r] \in PassedScreening})
          /\ metrics.LLMErrorsTotal + Cardinality(In("Completed"))
                <= metrics.LLMRequestsTotal
          /\ metrics.LLMRequestsTotal
                - (metrics.LLMErrorsTotal + Cardinality(In("Completed")))
                = Cardinality(InFlight))
    /\ [][/\ metrics'.LLMRequestsTotal >= metrics.LLMRequestsTotal
          /\ metrics'.LLMErrorsTotal >= metrics.LLMErrorsTotal
          /\ metrics'.LLMTokensTotal >= metrics.LLMTokensTotal
          /\ metrics'.GuardrailBlocksTotal >= metrics.GuardrailBlocksTotal
          /\ (\/ metrics'.LLMErrorsTotal # metrics.LLMErrorsTotal
              \/ metrics'.LLMTokensTotal # metrics.LLMTokensTotal)
             => \E r \in Requests : pc[r] = "AwaitingUpstream" /\ pc'[r] # pc[r]]_vars
====
